---------------------------- MODULE Spec2Model ----------------------------
(***************************************************************************)
(* A model of bot.py: the Slack handler that extracts a $$...$$ block from *)
(* a message, runs the KaTeX CLI, renders the HTML in a headless browser   *)
(* and uploads the cropped screenshot.                                     *)
(*                                                                         *)
(* Each message is handled by one call of handle_message; Bolt runs the    *)
(* handlers on a thread pool, so calls interleave at every blocking step.  *)
(***************************************************************************)
EXTENDS Naturals, Sequences, FiniteSets

(* ------------------------------ bounds -------------------------------- *)
\* Number of messages delivered to the handler.
NReq == 2
\* Longest message text.
MaxLen == 5
\* Most pieces of a message text whose extraction is checked on its own.
MaxPieces == 6

Reqs == 1..NReq
\* Every request creates at most one .html and one .png file.
Paths == 1..(2 * NReq)
\* A name drawn without looking at the files that exist.
AnyName(existing, seen) == {p \in Paths : p <= seen + 1}
\* tempfile draws a random name and retries until no file has it. Names are
\* numbered in the order they first appear: a new file gets a name that is
\* free now, one used before or the next unused one.
FreeNames(existing, seen) == {p \in Paths : existing[p] = 0 /\ p <= seen + 1}
\* Every request launches at most one browser.
Engines == 1..NReq

(* ---------------------------- message text ---------------------------- *)
Chars == {"$", "a", " ", "\n"}
Texts == UNION {[1..n -> Chars] : n \in 0..MaxLen}

\* str.strip(): leading and trailing whitespace removed.
IsSpace(c) == c \in {" ", "\n"}
Strip(s) ==
    LET keep == {i \in 1..Len(s) : ~IsSpace(s[i])}
    IN  IF keep = {} THEN <<>>
        ELSE LET lo == CHOOSE i \in keep : \A k \in keep : i <= k
                 hi == CHOOSE i \in keep : \A k \in keep : k <= i
             IN  SubSeq(s, lo, hi)

\* The literal "$$" of the pattern at position i of t.
MarkerAt(t, i) == i + 1 <= Len(t) /\ t[i] = "$" /\ t[i + 1] = "$"

\* Python's None, and a value that is not None.
None == [none |-> TRUE]
Some(s) == [none |-> FALSE, val |-> s]

\* A pattern without the closing marker: everything after the first "$$".
extract_latex_unclosed(text) ==
    LET starts == {i \in 1..Len(text) : MarkerAt(text, i) /\ i + 2 <= Len(text)}
    IN  IF starts = {} THEN None
        ELSE LET i == CHOOSE x \in starts : \A y \in starts : x <= y
             IN  Some(Strip(SubSeq(text, i + 2, Len(text))))

\* The match without .strip().
extract_latex_unstripped(text) ==
    LET ends(i) == {j \in (i + 3)..Len(text) : MarkerAt(text, j)}
        starts == {i \in 1..Len(text) : MarkerAt(text, i) /\ ends(i) # {}}
    IN  IF starts = {} THEN None
        ELSE LET i == CHOOSE x \in starts : \A y \in starts : x <= y
                 j == CHOOSE x \in ends(i) : \A y \in ends(i) : x <= y
             IN  Some(SubSeq(text, i + 2, j - 1))

\* A greedy group, (.+) for (.+?): the longest match from the leftmost start.
extract_latex_greedy(text) ==
    LET ends(i) == {j \in (i + 3)..Len(text) : MarkerAt(text, j)}
        starts == {i \in 1..Len(text) : MarkerAt(text, i) /\ ends(i) # {}}
    IN  IF starts = {} THEN None
        ELSE LET i == CHOOSE x \in starts : \A y \in starts : x <= y
                 j == CHOOSE x \in ends(i) : \A y \in ends(i) : y <= x
             IN  Some(Strip(SubSeq(text, i + 2, j - 1)))

\* re.search(r"\$\$(.+?)\$\$", text, re.DOTALL): the leftmost start, then the
\* shortest group of at least one character (any character, newline
\* included) followed by "$$"; group(1).strip() on a match, None otherwise.
extract_latex(text) ==
    LET ends(i) == {j \in (i + 3)..Len(text) : MarkerAt(text, j)}
        starts == {i \in 1..Len(text) : MarkerAt(text, i) /\ ends(i) # {}}
    IN  IF starts = {} THEN None
        ELSE LET i == CHOOSE x \in starts : \A y \in starts : x <= y
                 j == CHOOSE x \in ends(i) : \A y \in ends(i) : x <= y
             IN  Some(Strip(SubSeq(text, i + 2, j - 1)))

\* "if not latex": None and the empty string are both falsy.
Falsy(latex) == latex = None \/ latex = Some(<<>>)

\* What the claims call a delimiter pair: the text holds an opening and a
\* closing marker that do not overlap, whatever lies between them.
HasPair(text) ==
    \E i, j \in 1..Len(text) : MarkerAt(text, i) /\ MarkerAt(text, j) /\ j >= i + 2

\* event.get("text", "") and extract_latex(text): what the handler derives
\* from a message text.
EventOf(t) == [latex |-> extract_latex(t), pair |-> HasPair(t)]
Events == {EventOf(t) : t \in Texts}

\* Longer texts, put together from pieces: markers, single characters.
Pieces == {<<"$", "$">>, <<"$">>, <<"a">>, <<"b">>, <<" ">>, <<"\n">>}
RECURSIVE Concat(_)
Concat(ss) == IF ss = <<>> THEN <<>> ELSE Head(ss) \o Concat(Tail(ss))
PieceTexts == {Concat(ss) : ss \in UNION {[1..n -> Pieces] : n \in 0..MaxPieces}}

(* ------------------------------- state -------------------------------- *)
VARIABLES
    text,      \* the text of the message of request 1, where it is fixed
               \* beforehand (SpecExtract); <<>> where every text is drawn
               \* when the message arrives (Spec)
    pc,        \* pc[r]: where the handler of request r stands
    latex,     \* latex[r]: the result of extract_latex
    stdin,     \* stdin[r]: what was passed to the KaTeX CLI (None: nothing yet)
    pair,      \* pair[r]: the message text held a delimiter pair (HasPair)
    files,     \* files[p]: the request that created the temporary file named
               \* p and has not deleted it (0: there is no such file)
    names,     \* the number of distinct file names handed out so far
    pngFile,   \* pngFile[r]: f_png.name (0: not created)
    htmlFile,  \* htmlFile[r]: html_file (0: not created)
    written,   \* the paths a screenshot was written to
    engine,    \* engine[b]: the state of browser process b
    nlaunch,   \* the number of browsers launched so far
    browser,   \* browser[r]: the local variable browser (0: unset)
    page,      \* page[r]: the state of the local page
    element,   \* element[r]: the selector whose node is captured
    box,       \* box[r]: the result of boundingBox()
    css,       \* css[r]: what became of the stylesheet request
    exc,       \* exc[r]: the exception caught by the handler
    sent,      \* sent[r]: the uploads that went through and the error posts
               \* made for request r, in order
    log,       \* log[r]: the calls made for request r, in order
    faults,    \* faults[r]: the failures the environment caused in r's own steps
    crashed,   \* crashed[r]: r's browser was killed while r was using it
    before,    \* before[r]: the requests that had finished when r started
    killed     \* killed[r]: the browsers that had been killed when r started

vars == <<text, pc, latex, stdin, pair, files, names, pngFile, htmlFile,
          written, engine, nlaunch, browser, page, element, box, css, exc,
          sent, log, faults, crashed, before, killed>>

NoExc == [type |-> "none"]

\* Nothing has been handled yet.
InitState ==
    /\ pc = [r \in Reqs |-> "idle"]
    /\ latex = [r \in Reqs |-> None]
    /\ stdin = [r \in Reqs |-> None]
    /\ pair = [r \in Reqs |-> FALSE]
    /\ files = [p \in Paths |-> 0]
    /\ names = 0
    /\ pngFile = [r \in Reqs |-> 0]
    /\ htmlFile = [r \in Reqs |-> 0]
    /\ written = {}
    /\ engine = [b \in Engines |-> "none"]
    /\ nlaunch = 0
    /\ browser = [r \in Reqs |-> 0]
    /\ page = [r \in Reqs |-> "none"]
    /\ element = [r \in Reqs |-> "none"]
    /\ box = [r \in Reqs |-> "none"]
    /\ css = [r \in Reqs |-> "none"]
    /\ exc = [r \in Reqs |-> NoExc]
    /\ sent = [r \in Reqs |-> <<>>]
    /\ log = [r \in Reqs |-> <<>>]
    /\ faults = [r \in Reqs |-> {}]
    /\ crashed = [r \in Reqs |-> FALSE]
    /\ before = [r \in Reqs |-> {}]
    /\ killed = [r \in Reqs |-> {}]

Init == InitState /\ text = <<>>

\* handle_message up to the guard, for a message whose text yields e: no
\* markup, no effect.
Handle(r, e) ==
    /\ pc[r] = "idle"
    /\ latex' = [latex EXCEPT ![r] = e.latex]
    /\ pair' = [pair EXCEPT ![r] = e.pair]
    /\ pc' = [pc EXCEPT ![r] = IF Falsy(e.latex) THEN "done" ELSE "mkpng"]
    /\ before' = [before EXCEPT ![r] = {q \in Reqs : pc[q] = "done"}]
    /\ killed' = [killed EXCEPT ![r] = {b \in Engines : engine[b] = "killed"}]
    /\ UNCHANGED <<text, stdin, files, names, pngFile, htmlFile, written,
                   engine, nlaunch, browser, page, element, box, css, exc,
                   sent, log, faults, crashed>>

\* A message arrives, with any text.
HandleMessage(r) == \E e \in Events : Handle(r, e)

\* The message with the text fixed beforehand arrives.
HandleText == Handle(1, EventOf(text))

(* ----------------------------- exceptions ----------------------------- *)
KatexCmd == "['katex', '--no-throw-on-error', '--display-mode']"
\* What the KaTeX CLI writes to standard error when it exits non-zero.
KatexStderr == "KaTeX parse error"

\* subprocess.run(..., check=True) on a non-zero exit status.
CalledProcessError ==
    [type |-> "CalledProcessError", cmd |-> KatexCmd, returncode |-> "1",
     stderr |-> KatexStderr]
\* Any other exception: its message is its only argument.
Error(type, msg) == [type |-> type, msg |-> msg]

\* str(e). CalledProcessError.__str__ names the command and the exit status;
\* the captured stderr is an attribute of the exception, not part of its text.
Str(e) ==
    IF e.type = "CalledProcessError"
    THEN <<"Command '", e.cmd, "' returned non-zero exit status ", e.returncode, ".">>
    ELSE <<e.msg>>

\* The f-string of the except clause: a fixed prefix, str(e) between
\* backquotes.
ErrorText(e) == <<"Error rendering LaTeX: ", "BACKQUOTE">> \o Str(e) \o <<"BACKQUOTE">>

\* An exception leaves the try block: control passes to the except clause.
Raise(r, e) ==
    /\ exc' = [exc EXCEPT ![r] = e]
    /\ pc' = [pc EXCEPT ![r] = "except"]

Called(r, name) == log' = [log EXCEPT ![r] = Append(@, name)]
Fault(r, name) == faults' = [faults EXCEPT ![r] = @ \cup {name}]

\* The browser behind r's local variable still answers.
Usable(r) == engine[browser[r]] = "ready"
EngineCrashed == Error("NetworkError", "Protocol error: Target closed.")

(* --------------------------- handle_message --------------------------- *)
\* tempfile.NamedTemporaryFile(suffix=".png", delete=False): a new file under
\* a name no existing file has; nothing deletes it when the block is left.
MakePng(r) ==
    /\ pc[r] = "mkpng"
    /\ \E p \in FreeNames(files, names) :
        /\ files' = [files EXCEPT ![p] = r]
        /\ names' = IF p > names THEN p ELSE names
        /\ pngFile' = [pngFile EXCEPT ![r] = p]
    /\ pc' = [pc EXCEPT ![r] = "katex"]
    /\ UNCHANGED <<text, latex, stdin, pair, htmlFile, written, engine,
                   nlaunch, browser, page, element, box, css, exc, sent, log,
                   faults, crashed, before, killed>>

\* katex_html: the CLI exits 0 with the fragment on stdout, or exits non-zero.
KatexHtml(r) ==
    /\ pc[r] = "katex"
    /\ Called(r, "katex")
    /\ stdin' = [stdin EXCEPT ![r] = latex[r]]
    /\ \/ /\ pc' = [pc EXCEPT ![r] = "mkhtml"]
          /\ UNCHANGED <<exc, faults>>
       \/ /\ Fault(r, "katex")
          /\ Raise(r, CalledProcessError)
    /\ UNCHANGED <<text, latex, pair, files, names, pngFile, htmlFile,
                   written, engine, nlaunch, browser, page, element, box, css,
                   sent, crashed, before, killed>>

(* ----------------------------- html_to_png ---------------------------- *)
\* tempfile.NamedTemporaryFile(suffix=".html", delete=False), written with
\* the document of wrap_in_html.
MakeHtml(r) ==
    /\ pc[r] = "mkhtml"
    /\ \E p \in FreeNames(files, names) :
        /\ files' = [files EXCEPT ![p] = r]
        /\ names' = IF p > names THEN p ELSE names
        /\ htmlFile' = [htmlFile EXCEPT ![r] = p]
    /\ pc' = [pc EXCEPT ![r] = "launch"]
    /\ UNCHANGED <<text, latex, stdin, pair, pngFile, written, engine,
                   nlaunch, browser, page, element, box, css, exc, sent, log,
                   faults, crashed, before, killed>>

\* A launch that hands out the browser launched last, whatever its state,
\* and starts one only when there is none yet.
LaunchCached(r) ==
    /\ pc[r] = "launch"
    /\ Called(r, "launch")
    /\ IF nlaunch = 0
       THEN /\ nlaunch' = 1
            /\ engine' = [engine EXCEPT ![1] = "starting"]
            /\ browser' = [browser EXCEPT ![r] = 1]
            /\ pc' = [pc EXCEPT ![r] = "launching"]
       ELSE /\ browser' = [browser EXCEPT ![r] = nlaunch]
            /\ pc' = [pc EXCEPT ![r] = "newpage"]
            /\ UNCHANGED <<nlaunch, engine>>
    /\ UNCHANGED <<text, latex, stdin, pair, files, names, pngFile, htmlFile,
                   written, page, element, box, css, exc, sent, faults,
                   crashed, before, killed>>

\* await launch(...), begun: every call starts a browser process of its own.
Launch(r) ==
    /\ pc[r] = "launch"
    /\ Called(r, "launch")
    /\ nlaunch' = nlaunch + 1
    /\ engine' = [engine EXCEPT ![nlaunch + 1] = "starting"]
    /\ browser' = [browser EXCEPT ![r] = nlaunch + 1]
    /\ pc' = [pc EXCEPT ![r] = "launching"]
    /\ UNCHANGED <<text, latex, stdin, pair, files, names, pngFile, htmlFile,
                   written, page, element, box, css, exc, sent, faults,
                   crashed, before, killed>>

\* await launch(...), returned: the browser is up, or the launch failed.
Launched(r) ==
    /\ pc[r] = "launching"
    /\ \/ /\ engine' = [engine EXCEPT ![browser[r]] = "ready"]
          /\ pc' = [pc EXCEPT ![r] = "newpage"]
          /\ UNCHANGED <<exc, faults>>
       \/ /\ engine' = [engine EXCEPT ![browser[r]] = "failed"]
          /\ Fault(r, "launch")
          /\ Raise(r, Error("BrowserError", "Browser closed unexpectedly"))
    /\ UNCHANGED <<text, latex, stdin, pair, files, names, pngFile, htmlFile,
                   written, nlaunch, browser, page, element, box, css, sent,
                   log, crashed, before, killed>>

\* page = await browser.newPage()
NewPage(r) ==
    /\ pc[r] = "newpage"
    /\ Called(r, "newPage")
    /\ IF Usable(r)
       THEN /\ page' = [page EXCEPT ![r] = "open"]
            /\ pc' = [pc EXCEPT ![r] = "goto"]
            /\ UNCHANGED exc
       ELSE /\ Raise(r, EngineCrashed)
            /\ UNCHANGED page
    /\ UNCHANGED <<text, latex, stdin, pair, files, names, pngFile, htmlFile,
                   written, engine, nlaunch, browser, element, box, css, sent,
                   faults, crashed, before, killed>>

\* A page.goto without waitUntil='networkidle0': it returns when the document
\* has loaded, with the request for the stylesheet possibly still on its way.
GotoNoWait(r) ==
    /\ pc[r] = "goto"
    /\ Called(r, "goto")
    /\ IF Usable(r)
       THEN /\ \E c \in {"loaded", "pending"} : css' = [css EXCEPT ![r] = c]
            /\ pc' = [pc EXCEPT ![r] = "query"]
            /\ UNCHANGED exc
       ELSE /\ Raise(r, EngineCrashed)
            /\ UNCHANGED css
    /\ UNCHANGED <<text, latex, stdin, pair, files, names, pngFile, htmlFile,
                   written, engine, nlaunch, browser, page, element, box,
                   sent, faults, crashed, before, killed>>

\* await page.goto("file://...", waitUntil='networkidle0'). The document is a
\* local file; the stylesheet is fetched from the network. The call returns
\* once no request is pending, whether the stylesheet arrived or its request
\* failed, and raises only when the network never falls idle in time.
Goto(r) ==
    /\ pc[r] = "goto"
    /\ Called(r, "goto")
    /\ IF Usable(r)
       THEN \/ /\ css' = [css EXCEPT ![r] = "loaded"]
               /\ pc' = [pc EXCEPT ![r] = "query"]
               /\ UNCHANGED <<exc, faults>>
            \/ /\ css' = [css EXCEPT ![r] = "failed"]
               /\ Fault(r, "css")
               /\ pc' = [pc EXCEPT ![r] = "query"]
               /\ UNCHANGED exc
            \/ /\ css' = [css EXCEPT ![r] = "pending"]
               /\ Fault(r, "css")
               /\ Raise(r, Error("TimeoutError", "Navigation Timeout Exceeded: 30000 ms exceeded."))
       ELSE /\ Raise(r, EngineCrashed)
            /\ UNCHANGED <<css, faults>>
    /\ UNCHANGED <<text, latex, stdin, pair, files, names, pngFile, htmlFile,
                   written, engine, nlaunch, browser, page, element, box,
                   sent, crashed, before, killed>>

\* A lookup of "#math" without the fallback: with no such node the element
\* is None, and element.boundingBox() raises.
QuerySelectorNoFallback(r) ==
    /\ pc[r] = "query"
    /\ Called(r, "querySelector")
    /\ IF Usable(r)
       THEN \/ /\ element' = [element EXCEPT ![r] = "#math"]
               /\ pc' = [pc EXCEPT ![r] = "bbox"]
               /\ UNCHANGED exc
            \/ /\ element' = [element EXCEPT ![r] = "None"]
               /\ Raise(r, Error("AttributeError",
                                 "'NoneType' object has no attribute 'boundingBox'"))
       ELSE /\ Raise(r, EngineCrashed)
            /\ UNCHANGED element
    /\ UNCHANGED <<text, latex, stdin, pair, files, names, pngFile, htmlFile,
                   written, engine, nlaunch, browser, page, box, css, sent,
                   faults, crashed, before, killed>>

\* element = await page.querySelector("#math"), "body" when there is none.
QuerySelector(r) ==
    /\ pc[r] = "query"
    /\ Called(r, "querySelector")
    /\ IF Usable(r)
       THEN /\ \E found \in BOOLEAN :
                element' = [element EXCEPT ![r] = IF found THEN "#math" ELSE "body"]
            /\ pc' = [pc EXCEPT ![r] = "bbox"]
            /\ UNCHANGED exc
       ELSE /\ Raise(r, EngineCrashed)
            /\ UNCHANGED element
    /\ UNCHANGED <<text, latex, stdin, pair, files, names, pngFile, htmlFile,
                   written, engine, nlaunch, browser, page, box, css, sent,
                   faults, crashed, before, killed>>

\* box = await element.boundingBox(): a rectangle, or None for a node that
\* has no layout box.
BoundingBox(r) ==
    /\ pc[r] = "bbox"
    /\ Called(r, "boundingBox")
    /\ IF Usable(r)
       THEN /\ \/ /\ box' = [box EXCEPT ![r] = "rect"]
                  /\ UNCHANGED faults
               \/ /\ box' = [box EXCEPT ![r] = "None"]
                  /\ Fault(r, "box")
            /\ pc' = [pc EXCEPT ![r] = "shot"]
            /\ UNCHANGED exc
       ELSE /\ Raise(r, EngineCrashed)
            /\ UNCHANGED <<box, faults>>
    /\ UNCHANGED <<text, latex, stdin, pair, files, names, pngFile, htmlFile,
                   written, engine, nlaunch, browser, page, element, css,
                   sent, crashed, before, killed>>

\* A screenshot that leaves the clip out when there is no box and captures
\* the whole page.
ScreenshotUnclipped(r) ==
    /\ pc[r] = "shot"
    /\ Called(r, "screenshot")
    /\ IF Usable(r)
       THEN \/ /\ written' = written \cup {pngFile[r]}
               /\ pc' = [pc EXCEPT ![r] = "close"]
               /\ UNCHANGED <<exc, faults>>
            \/ /\ Fault(r, "screenshot")
               /\ Raise(r, Error("NetworkError", "Protocol error (Page.captureScreenshot)"))
               /\ UNCHANGED written
       ELSE /\ Raise(r, EngineCrashed)
            /\ UNCHANGED <<written, faults>>
    /\ UNCHANGED <<text, latex, stdin, pair, files, names, pngFile, htmlFile,
                   engine, nlaunch, browser, page, element, box, css, sent,
                   crashed, before, killed>>

\* await page.screenshot({'path': output_path, 'clip': {... box['x'] ...}}).
\* The clip is built first: subscripting None raises before anything is
\* asked of the page.
Screenshot(r) ==
    /\ pc[r] = "shot"
    /\ IF box[r] = "None"
       THEN /\ Raise(r, Error("TypeError", "'NoneType' object is not subscriptable"))
            /\ UNCHANGED <<written, log, faults>>
       ELSE /\ Called(r, "screenshot")
            /\ IF Usable(r)
               THEN \/ /\ written' = written \cup {pngFile[r]}
                       /\ pc' = [pc EXCEPT ![r] = "close"]
                       /\ UNCHANGED <<exc, faults>>
                    \/ /\ Fault(r, "screenshot")
                       /\ Raise(r, Error("NetworkError", "Protocol error (Page.captureScreenshot)"))
                       /\ UNCHANGED written
               ELSE /\ Raise(r, EngineCrashed)
                    /\ UNCHANGED <<written, faults>>
    /\ UNCHANGED <<text, latex, stdin, pair, files, names, pngFile, htmlFile,
                   engine, nlaunch, browser, page, element, box, css, sent,
                   crashed, before, killed>>

\* await browser.close(): the browser process ends and every page of it with
\* it. Reached only when every step before it returned.
Close(r) ==
    /\ pc[r] = "close"
    /\ Called(r, "close")
    /\ engine' = [engine EXCEPT ![browser[r]] = IF @ = "ready" THEN "closed" ELSE @]
    /\ page' = [q \in Reqs |->
                  IF browser[q] = browser[r] /\ page[q] = "open" THEN "closed" ELSE page[q]]
    /\ pc' = [pc EXCEPT ![r] = "unlink"]
    /\ UNCHANGED <<text, latex, stdin, pair, files, names, pngFile, htmlFile,
                   written, nlaunch, browser, element, box, css, exc, sent,
                   faults, crashed, before, killed>>

\* os.unlink(html_file): the last statement of html_to_png, outside any
\* try/finally. An OSError leaves html_to_png like any other exception.
Unlink(r) ==
    /\ pc[r] = "unlink"
    /\ Called(r, "unlink")
    /\ \/ /\ files' = [files EXCEPT ![htmlFile[r]] = 0]
          /\ pc' = [pc EXCEPT ![r] = "upload"]
          /\ UNCHANGED <<exc, faults>>
       \/ /\ Fault(r, "unlink")
          /\ Raise(r, Error("OSError", "[Errno 13] Permission denied"))
          /\ UNCHANGED files
    /\ UNCHANGED <<text, latex, stdin, pair, names, pngFile, htmlFile,
                   written, engine, nlaunch, browser, page, element, box, css,
                   sent, crashed, before, killed>>

(* ---------------------- handle_message, continued --------------------- *)
Upload(file) == [call |-> "files_upload_v2", file |-> file]
Post(msg) == [call |-> "chat_postMessage", text |-> msg]

\* client.files_upload_v2(file=f_png.name, ...), then the end of the with
\* block, which closes f_png and leaves the file where it is.
FilesUpload(r) ==
    /\ pc[r] = "upload"
    /\ Called(r, "upload")
    /\ \/ /\ sent' = [sent EXCEPT ![r] = Append(@, Upload(pngFile[r]))]
          /\ pc' = [pc EXCEPT ![r] = "done"]
          /\ UNCHANGED <<exc, faults>>
       \/ /\ Fault(r, "upload")
          /\ Raise(r, Error("SlackApiError", "The request to the Slack API failed."))
          /\ UNCHANGED sent
    /\ UNCHANGED <<text, latex, stdin, pair, files, names, pngFile, htmlFile,
                   written, engine, nlaunch, browser, page, element, box, css,
                   crashed, before, killed>>

\* An except clause that posts the error and goes on to upload the file.
PostErrorThenUpload(r) ==
    /\ pc[r] = "except"
    /\ Called(r, "post")
    /\ sent' = [sent EXCEPT ![r] =
                  Append(Append(@, Post(ErrorText(exc[r]))), Upload(pngFile[r]))]
    /\ pc' = [pc EXCEPT ![r] = "done"]
    /\ UNCHANGED <<text, latex, stdin, pair, files, names, pngFile, htmlFile,
                   written, engine, nlaunch, browser, page, element, box, css,
                   exc, faults, crashed, before, killed>>

\* except Exception as e: client.chat_postMessage(text=f"Error ... `{e}`")
PostError(r) ==
    /\ pc[r] = "except"
    /\ Called(r, "post")
    /\ sent' = [sent EXCEPT ![r] = Append(@, Post(ErrorText(exc[r])))]
    /\ pc' = [pc EXCEPT ![r] = "done"]
    /\ UNCHANGED <<text, latex, stdin, pair, files, names, pngFile, htmlFile,
                   written, engine, nlaunch, browser, page, element, box, css,
                   exc, faults, crashed, before, killed>>

(* ----------------------------- environment ---------------------------- *)
\* The steps of html_to_png that talk to the browser.
InRender == {"newpage", "goto", "query", "bbox", "shot", "close"}

\* A running browser process is killed from outside: its pages go with it.
Kill(b) ==
    /\ engine[b] = "ready"
    /\ engine' = [engine EXCEPT ![b] = "killed"]
    /\ page' = [q \in Reqs |->
                  IF browser[q] = b /\ page[q] = "open" THEN "lost" ELSE page[q]]
    /\ crashed' = [q \in Reqs |->
                     crashed[q] \/ (browser[q] = b /\ pc[q] \in InRender)]
    /\ UNCHANGED <<text, pc, latex, stdin, pair, files, names, pngFile,
                   htmlFile, written, nlaunch, browser, element, box, css,
                   exc, sent, log, faults, before, killed>>

Next ==
    \/ \E r \in Reqs :
           \/ HandleMessage(r) \/ MakePng(r) \/ KatexHtml(r)
           \/ MakeHtml(r) \/ Launch(r) \/ Launched(r) \/ NewPage(r)
           \/ Goto(r) \/ QuerySelector(r) \/ BoundingBox(r)
           \/ Screenshot(r) \/ Close(r) \/ Unlink(r)
           \/ FilesUpload(r) \/ PostError(r)
    \/ \E b \in Engines : Kill(b)

Spec == Init /\ [][Next]_vars

\* extract_latex on its own: one message with a text drawn beforehand is
\* handled up to the call of the KaTeX CLI.
InitExtract == InitState /\ text \in PieceTexts
NextExtract == HandleText \/ MakePng(1) \/ KatexHtml(1)
SpecExtract == InitExtract /\ [][NextExtract]_vars

(* ------------------------------- claims ------------------------------- *)
Done(r) == pc[r] = "done"
\* The files request r created and that still exist.
Leftover(r) == {p \in Paths : files[p] = r}
Uploaded(r) == sent[r] = <<Upload(pngFile[r])>>
Posted(r) == Len(sent[r]) = 1 /\ sent[r][1].call = "chat_postMessage"

\* C1: when the handler of a message with markup has returned, none of the
\* temporary files it created (.html, .png) exists any more.
C1_NoTransientFileRemains ==
    \A r \in Reqs : Done(r) /\ pair[r] => Leftover(r) = {}

\* C2: at most one browser launch is in flight at a time and at most one
\* browser instance is alive at a time.
C2_AtMostOneEngine ==
    /\ Cardinality({b \in Engines : engine[b] = "starting"}) <= 1
    /\ Cardinality({b \in Engines : engine[b] = "ready"}) <= 1

\* C3: once html_to_png has returned or raised, the page it opened is no
\* longer open.
C3_SessionClosed ==
    \A r \in Reqs : pc[r] \in {"upload", "except", "done"} => page[r] # "open"

C5_NoMarkupNoOp ==
    \A r \in Reqs :
        pc[r] # "idle" /\ ~pair[r] =>
            /\ latex[r] = None
            /\ Done(r)
            /\ log[r] = <<>>
            /\ sent[r] = <<>>
            /\ pngFile[r] = 0 /\ htmlFile[r] = 0 /\ Leftover(r) = {}
            /\ browser[r] = 0 /\ page[r] = "none"

\* C5 witness: a message without a delimiter pair has been handled while
\* another message went through the pipeline.
C5_Witness ==
    \E r, q \in Reqs : Done(r) /\ ~pair[r] /\ Done(q) /\ Uploaded(q)

\* C6: of two render calls one after the other, the second uses the browser
\* the first launched, which is still running.
C6_EngineReuse ==
    \A q, r \in Reqs :
        q \in before[r] /\ Uploaded(q) /\ browser[r] # 0 =>
            browser[r] = browser[q] /\ engine[browser[q]] = "ready"

\* C7: when KaTeX exits non-zero, the request ends with an error post whose
\* text holds KaTeX's standard error, no browser is launched for it and no
\* temporary file of it is left.
C7_MarkupFailure ==
    \A r \in Reqs :
        Done(r) /\ "katex" \in faults[r] =>
            /\ Posted(r)
            /\ \E i \in 1..Len(sent[r][1].text) : sent[r][1].text[i] = KatexStderr
            /\ browser[r] = 0
            /\ Leftover(r) = {}

\* C8: when deleting the .html file fails after the screenshot was taken,
\* the request goes on to the upload as if the deletion had succeeded.
C8_CleanupFailureIgnored ==
    \A r \in Reqs :
        Done(r) /\ "unlink" \in faults[r] =>
            /\ \E i \in 1..Len(log[r]) : log[r][i] = "upload"
            /\ "upload" \notin faults[r] => Uploaded(r)

\* C9: when the stylesheet has not loaded, the request ends with an error
\* post, never with an upload.
C9_StyleLoadFailureSurfaced ==
    \A r \in Reqs :
        Done(r) /\ css[r] \in {"failed", "pending"} => Posted(r)

\* C10: a request that starts after a browser was killed never uses a
\* browser that was dead when it started, and it ends with the upload of
\* its image unless one of its own steps fails or its own browser is killed
\* under it.
C10_AutoRecovery ==
    \A r \in Reqs :
        killed[r] # {} =>
            /\ browser[r] \notin killed[r]
            /\ Done(r) /\ ~Falsy(latex[r]) /\ faults[r] = {} /\ ~crashed[r] =>
                  Uploaded(r)

\* C10 witness: the browser of a finished request was killed after that
\* request had finished, and the request that started next has uploaded its
\* image.
C10_Witness ==
    \E q, r \in Reqs :
        /\ q \in before[r] /\ browser[q] # 0 /\ browser[q] \in killed[r]
        /\ ~crashed[q]
        /\ Done(r) /\ Uploaded(r)

\* The names request r was given, and those among them it still holds: the
\* .png for good, the .html until os.unlink has removed it.
Used(r) == {pngFile[r], htmlFile[r]} \ {0}
HtmlDeleted(r) ==
    "unlink" \notin faults[r] /\ \E i \in 1..Len(log[r]) : log[r][i] = "unlink"
Held(r) ==
    ({pngFile[r]} \cup (IF HtmlDeleted(r) THEN {} ELSE {htmlFile[r]})) \ {0}
\* Requests r and q were handled at the same time.
Concurrent(r, q) ==
    /\ r # q /\ pc[r] # "idle" /\ pc[q] # "idle"
    /\ r \notin before[q] /\ q \notin before[r]

\* C11 as stated, its last part: of two requests handled at the same time
\* without a failure, neither is ever given a file name the other was given.
C11_NoPathUsedTwice ==
    \A r, q \in Reqs :
        Concurrent(r, q) /\ faults[r] = {} /\ faults[q] = {}
        /\ ~crashed[r] /\ ~crashed[q] => Used(r) \cap Used(q) = {}

\* C11, amended: a request with markup none of whose steps fails ends with
\* the upload of the image written to its own .png, whatever the other
\* requests do; and no name is held by two requests at once (the name of a
\* deleted .html may be given out again).
C11_ConcurrentRenders ==
    \A r \in Reqs :
        /\ Done(r) /\ ~Falsy(latex[r]) /\ faults[r] = {} /\ ~crashed[r] =>
              Uploaded(r) /\ pngFile[r] \in written
        /\ \A q \in Reqs \ {r} : Held(r) \cap Held(q) = {}

\* C11 witness: two requests with different markup were handled at the same
\* time and both have uploaded their images.
C11_Witness ==
    \E r, q \in Reqs :
        /\ Concurrent(r, q) /\ latex[r] # latex[q]
        /\ Done(r) /\ Uploaded(r) /\ Done(q) /\ Uploaded(q)

(* A text read from left to right: the first marker opens the first pair,  *)
(* the next marker that does not overlap it closes it, and so on.          *)
Markers(t) == {i \in 1..Len(t) : MarkerAt(t, i)}
Least(S) == CHOOSE x \in S : \A y \in S : x <= y
\* The marker that closes the pair opened at i (0: there is none).
Closing(t, i) ==
    LET after == {j \in Markers(t) : j >= i + 2}
    IN  IF after = {} THEN 0 ELSE Least(after)
\* The marker that opens the first pair at or after position k (0: none).
Opening(t, k) ==
    LET open == {i \in Markers(t) : i >= k /\ Closing(t, i) # 0}
    IN  IF open = {} THEN 0 ELSE Least(open)
Enclosed(t, i) == SubSeq(t, i + 2, Closing(t, i) - 1)
Open1(t) == Opening(t, 1)
Open2(t) == IF Open1(t) = 0 THEN 0 ELSE Opening(t, Closing(t, Open1(t)) + 2)
OnePair(t) == Open1(t) # 0 /\ Open2(t) = 0
TwoPairs(t) == Open1(t) # 0 /\ Open2(t) # 0
Content1(t) == Enclosed(t, Open1(t))
Content2(t) == Enclosed(t, Open2(t))
\* The handler of the message with the fixed text has called extract_latex.
Extracted == pc[1] # "idle"

C13_FirstPairAlways ==
    Extracted /\ TwoPairs(text) => latex[1] = Some(Strip(Content1(text)))

\* C13, amended: for a text with two or more delimiter pairs whose first
\* pair encloses at least one character, extract_latex returns the trimmed
\* content of the first pair, and that, nothing of a later pair, is what the
\* KaTeX CLI is given.
C13_FirstPairOnly ==
    /\ stdin[1] \in {None, latex[1]}
    /\ Extracted /\ TwoPairs(text) /\ Content1(text) # <<>> =>
          /\ latex[1] = Some(Strip(Content1(text)))
          /\ stdin[1] \in {None, Some(Strip(Content1(text)))}

\* C13 witness: the text holds two pairs with different contents, and the
\* KaTeX CLI was given the content of the first.
C13_Witness ==
    /\ TwoPairs(text)
    /\ Strip(Content1(text)) # <<>> /\ Strip(Content2(text)) # <<>>
    /\ Strip(Content1(text)) # Strip(Content2(text))
    /\ stdin[1] = Some(Strip(Content1(text)))

\* The calls of request r so far include name.
Did(r, name) == \E i \in 1..Len(log[r]) : log[r][i] = name
\* Every call of b by request r came after a call of a.
Precedes(r, a, b) ==
    \A k \in 1..Len(log[r]) :
        log[r][k] = b => \E i \in 1..(k - 1) : log[r][i] = a
\* The document file of request r was written and is no longer there.
DocumentGone(r) == htmlFile[r] # 0 /\ files[htmlFile[r]] # r

\* C14: within one request the KaTeX CLI has returned before the document
\* file is written; the document file is there from before the navigation
\* until after the screenshot; the screenshot is taken only after the
\* navigation has returned with no request pending; the document file is
\* deleted only after the screenshot was written; and the upload happens
\* only after the screenshot was written to the request's own image path,
\* with that image file still there.
C14_OrderWithinRequest ==
    \A r \in Reqs :
        /\ htmlFile[r] # 0 => Did(r, "katex") /\ "katex" \notin faults[r]
        /\ Did(r, "goto") =>
              /\ htmlFile[r] # 0
              /\ ~Did(r, "unlink") => files[htmlFile[r]] = r
        /\ Did(r, "screenshot") =>
              /\ Precedes(r, "goto", "screenshot")
              /\ css[r] \in {"loaded", "failed"}
        /\ Did(r, "unlink") => Precedes(r, "screenshot", "unlink")
        /\ DocumentGone(r) => pngFile[r] \in written
        /\ Did(r, "upload") =>
              /\ Precedes(r, "screenshot", "upload")
              /\ pngFile[r] \in written
              /\ files[pngFile[r]] = r

\* C14 witness: a request went through every step, deleted its document and
\* uploaded its image.
C14_Witness ==
    \E r \in Reqs :
        /\ Done(r) /\ Uploaded(r) /\ DocumentGone(r)
        /\ Did(r, "goto") /\ Did(r, "screenshot") /\ Did(r, "unlink")

\* C15: when the page has no node "#math" the capture uses body: the
\* bounding box is asked of, and the screenshot clipped to, a node that is
\* there. No request fails for want of the node: one that found no "#math"
\* and met no failure and no browser crash ends with the upload of its
\* written image.
C15_BodyFallback ==
    \A r \in Reqs :
        /\ element[r] \in {"none", "#math", "body"}
        /\ Did(r, "boundingBox") => element[r] \in {"#math", "body"}
        /\ exc[r].type # "AttributeError"
        /\ Done(r) /\ element[r] = "body" /\ faults[r] \subseteq {"css"}
           /\ css[r] # "pending" /\ ~crashed[r] =>
              Uploaded(r) /\ pngFile[r] \in written

\* C15 witness: a request whose page had no "#math" took the screenshot of
\* body and uploaded it.
C15_Witness ==
    \E r \in Reqs :
        /\ Done(r) /\ element[r] = "body" /\ Did(r, "screenshot")
        /\ Uploaded(r) /\ pngFile[r] \in written

\* C16: when boundingBox() gives no rectangle, page.screenshot is never
\* called and nothing is written to the image file, the render raises, no
\* upload is attempted, and the request ends with one error message.
C16_NoBoxNoScreenshot ==
    \A r \in Reqs :
        box[r] = "None" =>
            /\ ~Did(r, "screenshot") /\ ~Did(r, "upload")
            /\ pngFile[r] \notin written
            /\ pc[r] \in {"shot", "except", "done"}
            /\ pc[r] # "shot" => exc[r].type = "TypeError"
            /\ Done(r) => Posted(r) /\ sent[r] = <<Post(ErrorText(exc[r]))>>

\* C16 witness: a request whose node had no bounding box has ended.
C16_Witness ==
    \E r \in Reqs : Done(r) /\ box[r] = "None" /\ Posted(r)

\* The stage failures that end a render, and the failure of a request by a
\* result of its own: a failed stage of its own, a navigation of its own
\* that timed out, or the death of the browser it launched itself.
Fatal == {"katex", "launch", "box", "screenshot", "unlink", "upload"}
OwnBrowserDied(r) == browser[r] # 0 /\ engine[browser[r]] = "killed" /\ crashed[r]
OwnFailure(r) ==
    faults[r] \cap Fatal # {} \/ css[r] = "pending" \/ OwnBrowserDied(r)

\* C17: the outcome of a request is decided by its own text and its own
\* stage results. No two requests have the same browser or hold the same
\* file; a request without markup sends nothing; a request with markup ends
\* with the upload of its own image exactly when no stage of its own failed
\* and its own browser did not die under it, and with one error message,
\* the text of its own exception, otherwise - whatever failed or crashed in
\* the other request.
C17_RequestIsolation ==
    \A r \in Reqs :
        /\ \A q \in Reqs \ {r} :
              /\ browser[r] # 0 => browser[r] # browser[q]
              /\ Held(r) \cap Held(q) = {}
        /\ exc[r] = EngineCrashed => OwnBrowserDied(r)
        /\ Done(r) /\ Falsy(latex[r]) => sent[r] = <<>>
        /\ Done(r) /\ ~Falsy(latex[r]) =>
              /\ Uploaded(r) \/ sent[r] = <<Post(ErrorText(exc[r]))>>
              /\ Uploaded(r) => faults[r] \cap Fatal = {} /\ css[r] # "pending"
              /\ Posted(r) => OwnFailure(r)
              /\ ~OwnFailure(r) => Uploaded(r)

\* C17 witness: of two requests handled at the same time one lost its
\* browser and ended with an error message, the other uploaded its image.
C17_Witness ==
    \E r, q \in Reqs :
        /\ Concurrent(r, q) /\ Done(r) /\ Done(q)
        /\ OwnBrowserDied(q) /\ Posted(q)
        /\ ~OwnFailure(r) /\ Uploaded(r)
=============================================================================
